---- MODULE Spec2Model ----
(***************************************************************************)
(* database.Client of mongodb-go-proxy: the lazily connected MongoDB       *)
(* client with its idle-connection cleanup goroutine.                      *)
(*                                                                         *)
(* Processes: Callers run GetConnection in a loop, one closer runs Close,  *)
(* and every startCleanup that finds stopCleanup nil spawns one            *)
(* cleanupStaleConnections goroutine.  Time is counted in minutes and     *)
(* passes independently of every goroutine: the Go scheduler gives no      *)
(* bound on the delay between two statements of a goroutine.  Instants are *)
(* recorded relative to the present (Now is 0, a minute ago is -1), and an *)
(* instant further back than Horizon is recorded as Horizon back: the code *)
(* reads c.lastUsed only to compare time.Since with ConnectionTimeout.     *)
(*                                                                         *)
(* Granularity: one step per lock acquisition.  A critical section that    *)
(* performs no blocking call is taken with its lock and its unlock in one  *)
(* step; mongo.Connect and Client.Disconnect are in flight over several    *)
(* states, with the locks held that the code holds around them.  The       *)
(* critical sections of cleanupMu never block, so cleanupMu is free in     *)
(* every state and needs no variable.                                      *)
(*                                                                         *)
(* Spec is the database client under its callers.  HttpSpec is the HTTP    *)
(* layer in front of it: the route table of main.go, the api-key           *)
(* middleware and the find action of the Data API, one step per request;   *)
(* what the database answers is an input of the request.                   *)
(***************************************************************************)
EXTENDS Integers, FiniteSets, Sequences, TLC

\* ---------------------------------------------------------------- bounds
NumCallers == 2        \* goroutines calling GetConnection
MaxAttempts == 2       \* mongo.Connect invocations in one behaviour
MaxCloses == 2         \* Close invocations in one behaviour

\* ------------------------------------------------------ program constants
ConnectionTimeout == 5         \* 5 * time.Minute
ConnectionCheckInterval == 1   \* 1 * time.Minute

Callers == 1..NumCallers
C(p) == <<"caller", p>>          \* lock holders
W(k) == <<"watchdog", k>>
Closer == <<"closer", 0>>
Watchdogs == 1..MaxAttempts    \* goroutine k listens on the k-th channel made
Nil == 0                       \* nil *mongo.Client, nil chan struct{}
NoLock == <<"free", 0>>
Now == 0                       \* time.Now()
Horizon == ConnectionTimeout + ConnectionCheckInterval
ZeroTime == 0 - Horizon        \* time.Time{}: further back than the horizon
NoError == "nil"
NotCalled == <<Nil, "not called">>     \* the caller has not called yet
Pending == <<Nil, "pending">>        \* the call has not returned
Returned(h) == <<h, NoError>>         \* return c.client, nil
ConnectError == <<Nil, "ConnectError">>   \* return nil, err
DisconnectError == "DisconnectError"
NoResult == "none"             \* Disconnect was not called, or has not returned

\* ---------------------------------------------------------- the HTTP layer
Keys == {"k1", "k2", "k3"}     \* values of an api-key header or of a secret
NoKey == ""                    \* Header.Get of an absent header; an unset variable
StatusOK == 200
StatusBadRequest == 400
StatusUnauthorized == 401
StatusForbidden == 403
StatusInternalServerError == 500
NoStatus == 0                  \* no response written
CallNext == 1                  \* the middleware returned next(c)
NoHandler == "none"
DocumentedLimit == 100         \* "default: 100" in the comment of FindRequest.Limit

\* *int64: nil, or a pointer to v
Absent == <<FALSE, 0>>
Ptr(v) == <<TRUE, v>>
Int64s == {0 - 1, 0, 1, DocumentedLimit}
OptInt64 == {Absent} \cup {Ptr(v) : v \in Int64s}

\* e.METHOD(path, handler) on a group that uses the middleware auth
Route(m, path, auth, h) == [method |-> m, path |-> path, auth |-> auth, handler |-> h]

setupMongoRoutes ==
  { Route("GET", "/api/v1/databases", "ReadAuth", "MongoHandler.ListDatabases"),
    Route("GET", "/api/v1/databases/:db/collections", "ReadAuth", "MongoHandler.ListCollections"),
    Route("GET", "/api/v1/databases/:db/collections/:collection/documents", "ReadAuth", "MongoHandler.FindDocuments"),
    Route("GET", "/api/v1/databases/:db/collections/:collection/documents/:id", "ReadAuth", "MongoHandler.GetDocument"),
    Route("GET", "/api/v1/databases/:db/collections/:collection/document", "ReadAuth", "MongoHandler.FindOne"),
    Route("POST", "/api/v1/databases/:db/collections/:collection/documents", "WriteAuth", "MongoHandler.InsertDocument"),
    Route("PUT", "/api/v1/databases/:db/collections/:collection/documents/:id", "WriteAuth", "MongoHandler.UpdateDocument"),
    Route("DELETE", "/api/v1/databases/:db/collections/:collection/documents/:id", "WriteAuth", "MongoHandler.DeleteDocument") }

FindRoute == Route("POST", "/api/v1/data-api/action/find", "ReadAuth", "DataAPIHandler.Find")

setupDataAPIRoutes ==
  { Route("POST", "/api/v1/data-api/action/findOne", "ReadAuth", "DataAPIHandler.FindOne"),
    FindRoute,
    Route("POST", "/api/v1/data-api/action/insertOne", "WriteAuth", "DataAPIHandler.InsertOne"),
    Route("POST", "/api/v1/data-api/action/insertMany", "WriteAuth", "DataAPIHandler.InsertMany"),
    Route("POST", "/api/v1/data-api/action/updateOne", "WriteAuth", "DataAPIHandler.UpdateOne"),
    Route("POST", "/api/v1/data-api/action/updateMany", "WriteAuth", "DataAPIHandler.UpdateMany"),
    Route("POST", "/api/v1/data-api/action/deleteOne", "WriteAuth", "DataAPIHandler.DeleteOne"),
    Route("POST", "/api/v1/data-api/action/deleteMany", "WriteAuth", "DataAPIHandler.DeleteMany") }

\* the routes registered without a middleware of this repository
PublicRoutes ==
  { Route("GET", "/api/health", "none", "healthCheck"),
    Route("GET", "/swagger/*", "none", "echoSwagger.WrapHandler") }

Routes == setupMongoRoutes \cup setupDataAPIRoutes \cup PublicRoutes
NoRoute == Route("", "", "none", NoHandler)

\* What the find action depends on in a request body and in the database's
\* answers: c.Bind succeeds, database and collection are given, GetCollection
\* succeeds, buildFilter, buildSort and buildProjection succeed, collection.Find
\* and cursor.All succeed; and the limit and skip fields.
Bodies ==
  [bind : BOOLEAN, named : BOOLEAN, coll : BOOLEAN, filter : BOOLEAN, sort : BOOLEAN,
   projection : BOOLEAN, cursor : BOOLEAN, limit : OptInt64, skip : OptInt64]
NoBody ==
  [bind |-> TRUE, named |-> TRUE, coll |-> TRUE, filter |-> TRUE, sort |-> TRUE,
   projection |-> TRUE, cursor |-> TRUE, limit |-> Absent, skip |-> Absent]

\* options.Find(): no option is set; collection.Find was not called
FindNotCalled == [called |-> FALSE, limit |-> Absent, skip |-> Absent]
FindCalled(l, sk) == [called |-> TRUE, limit |-> l, skip |-> sk]

\* what the handlers other than find answer
HandlerStatuses == {StatusOK, StatusBadRequest, StatusInternalServerError}

VARIABLES
  client,        \* c.client: Nil or the id of the connection stored
  lastUsed,      \* c.lastUsed, relative to Now
  mu,            \* writer of c.mu: NoLock, C(p), Closer or W(k)
  connectionMu,  \* holder of c.connectionMu: NoLock or C(p)
  stopCleanup,   \* c.stopCleanup: Nil or the id of a channel
  closed,        \* the channels close() was called on
  pc,            \* pc[p]: where caller p is in GetConnection
  seen,          \* seen[p]: the connection ensureConnection found or made
  ret,           \* ret[p]: what p's last GetConnection returned
  cpc,           \* where the closer is in Close
  cret,          \* what the last Close returned
  closes,        \* Close invocations so far
  wpc,           \* wpc[k]: where cleanup goroutine k is
  wsel,          \* wsel[k]: the channel k's select evaluated c.stopCleanup to
  tick,          \* tick[k]: a tick waits in k's ticker.C (capacity 1)
  untilTick,     \* untilTick[k]: minutes until k's ticker fires next
  attempts,      \* mongo.Connect invocations so far
  connects,      \* successful ones: the id of the newest connection
  failures,      \* failed ones
  disconnected,  \* the connections Disconnect was called on
  reclaims,      \* connections the cleanup goroutines have cleared
  firstCalls,    \* every GetConnection so far is its caller's first
  stale,         \* stale[p]: c.lastUsed is older than the start of p's latest call
  cres,          \* what the Disconnect called by the last Close returned
  wres,          \* wres[k]: what the Disconnect called by goroutine k returned
  apiSecret,          \* cfg.APISecret
  readOnlyAPISecret,  \* cfg.ReadOnlyAPISecret
  request,       \* the last HTTP request served: route, api-key header, body
  status,        \* the status of its response
  called,        \* the handler the middleware passed it to, or NoHandler
  dbFind         \* whether the handler called collection.Find, and the options it passed

dbVars == <<client, lastUsed, mu, connectionMu, stopCleanup, closed, pc, seen, ret,
            cpc, cret, closes, wpc, wsel, tick, untilTick, attempts, connects,
            failures, disconnected, reclaims, firstCalls, stale, cres, wres>>
httpVars == <<apiSecret, readOnlyAPISecret, request, status, called, dbFind>>
vars == <<dbVars, httpVars>>

clientVars == <<client, lastUsed>>
lockVars == <<mu, connectionMu>>
cleanupVars == <<stopCleanup, closed>>
callerVars == <<pc, seen, ret, firstCalls, stale>>
closerVars == <<cpc, cret, closes, cres>>
watchdogVars == <<wpc, wsel, tick, untilTick, wres>>
countVars == <<attempts, connects, failures, disconnected, reclaims>>

\* Mutant: NewClient connects and starts the cleanup goroutine itself.
NewClient_Eager ==
  /\ client = 1
  /\ lastUsed = Now
  /\ mu = NoLock
  /\ connectionMu = NoLock
  /\ stopCleanup = 1
  /\ closed = {}
  /\ pc = [p \in Callers |-> "idle"]
  /\ seen = [p \in Callers |-> Nil]
  /\ ret = [p \in Callers |-> NotCalled]
  /\ cpc = "idle"
  /\ cret = "pending"
  /\ closes = 0
  /\ wpc = [k \in Watchdogs |-> IF k = 1 THEN "start" ELSE "unborn"]
  /\ wsel = [k \in Watchdogs |-> Nil]
  /\ tick = [k \in Watchdogs |-> FALSE]
  /\ untilTick = [k \in Watchdogs |-> 0]
  /\ attempts = 1
  /\ connects = 1
  /\ failures = 0
  /\ disconnected = {}
  /\ reclaims = 0
  /\ firstCalls = TRUE
  /\ stale = [p \in Callers |-> FALSE]
  /\ cres = NoResult
  /\ wres = [k \in Watchdogs |-> NoResult]

\* NewClient: only the uri is set; every other field has its zero value.
NewClient ==
  /\ client = Nil
  /\ lastUsed = ZeroTime
  /\ mu = NoLock
  /\ connectionMu = NoLock
  /\ stopCleanup = Nil
  /\ closed = {}
  /\ pc = [p \in Callers |-> "idle"]
  /\ seen = [p \in Callers |-> Nil]
  /\ ret = [p \in Callers |-> NotCalled]
  /\ cpc = "idle"
  /\ cret = "pending"
  /\ closes = 0
  /\ wpc = [k \in Watchdogs |-> "unborn"]
  /\ wsel = [k \in Watchdogs |-> Nil]
  /\ tick = [k \in Watchdogs |-> FALSE]
  /\ untilTick = [k \in Watchdogs |-> 0]
  /\ attempts = 0
  /\ connects = 0
  /\ failures = 0
  /\ disconnected = {}
  /\ reclaims = 0
  /\ firstCalls = TRUE
  /\ stale = [p \in Callers |-> FALSE]
  /\ cres = NoResult
  /\ wres = [k \in Watchdogs |-> NoResult]

\* No request has been served.
NoRequest ==
  /\ request = [route |-> NoRoute, key |-> NoKey, body |-> NoBody]
  /\ status = NoStatus
  /\ called = NoHandler
  /\ dbFind = FindNotCalled

\* config.Load and Validate: API_SECRET is set (main exits otherwise),
\* READONLY_API_SECRET is optional.
Load ==
  /\ apiSecret \in Keys
  /\ readOnlyAPISecret \in Keys \cup {NoKey}

\* The database client under its callers: no request is looked at.
Init ==
  /\ NewClient
  /\ apiSecret = "k1"
  /\ readOnlyAPISecret = NoKey
  /\ NoRequest

\* main: the configuration is loaded, the client constructed, the routes set up.
HttpInit ==
  /\ Load
  /\ NewClient
  /\ NoRequest

\* Mutant: c.client is read without c.mu.RLock.
CanRLock_Unlocked == TRUE
\* c.mu.RLock() returns: no writer holds c.mu (read sections are one step).
CanRLock == mu = NoLock
\* Mutant: c.mu.Lock() returns while another goroutine holds c.mu.
CanLock_NoMutex == TRUE
\* c.mu.Lock() returns.
CanLock == mu = NoLock
\* Mutant: the creation section is entered without waiting for connectionMu.
CanLockConnection_NoMutex == TRUE
\* c.connectionMu.Lock() returns.
CanLockConnection == connectionMu = NoLock

\* time.Since(t)
Since(t) == Now - t

\* c.lastUsed = time.Now(): the instant stored is older than the start of no call
Fresh == [p \in Callers |-> FALSE]

\* Mutant: the comparison is >= instead of >.
IsStale_AtTimeout == client # Nil /\ Since(lastUsed) >= ConnectionTimeout
\* hasConnection && timeSinceLastUse > ConnectionTimeout
IsStale == client # Nil /\ Since(lastUsed) > ConnectionTimeout

\* ------------------------------------------------ ensureConnection (callers)

\* A handler calls GetConnection: RLock; hasConnection := c.client != nil; RUnlock
FirstCheck(p) ==
  /\ pc[p] = "idle"
  /\ CanRLock
  /\ ret' = [ret EXCEPT ![p] = Pending]
  /\ seen' = [seen EXCEPT ![p] = Nil]
  /\ firstCalls' = (firstCalls /\ ret[p] = NotCalled)
  /\ stale' = [stale EXCEPT ![p] = lastUsed < Now]
  /\ pc' = [pc EXCEPT ![p] = IF client # Nil THEN "fast" ELSE "lockConn"]
  /\ UNCHANGED <<httpVars, clientVars, lockVars, cleanupVars, closerVars, watchdogVars, countVars>>

\* Mutant: the fast path stores a time it read a minute before it got c.mu.
FastPath_EarlyClock(p) ==
  /\ pc[p] = "fast"
  /\ CanLock
  /\ IF client # Nil
       THEN /\ lastUsed' = Now - 1
            /\ stale' = Fresh
            /\ seen' = [seen EXCEPT ![p] = client]
            /\ pc' = [pc EXCEPT ![p] = "read"]
       ELSE /\ pc' = [pc EXCEPT ![p] = "lockConn"]
            /\ UNCHANGED <<lastUsed, seen, stale>>
  /\ UNCHANGED <<httpVars, firstCalls, client, lockVars, cleanupVars, ret, closerVars, watchdogVars, countVars>>

\* Mutant: the fast path returns the connection without storing time.Now().
FastPath_NoTouch(p) ==
  /\ pc[p] = "fast"
  /\ CanLock
  /\ IF client # Nil
       THEN /\ seen' = [seen EXCEPT ![p] = client]
            /\ pc' = [pc EXCEPT ![p] = "read"]
            /\ UNCHANGED <<lastUsed, stale>>
       ELSE /\ pc' = [pc EXCEPT ![p] = "lockConn"]
            /\ UNCHANGED <<lastUsed, seen, stale>>
  /\ UNCHANGED <<httpVars, firstCalls, client, lockVars, cleanupVars, ret, closerVars, watchdogVars, countVars>>

\* Mutant: the fast path waits until no caller is in the creation section.
FastPath_WaitsForCreation(p) ==
  /\ pc[p] = "fast"
  /\ CanLock
  /\ CanLockConnection
  /\ IF client # Nil
       THEN /\ lastUsed' = Now
            /\ stale' = Fresh
            /\ seen' = [seen EXCEPT ![p] = client]
            /\ pc' = [pc EXCEPT ![p] = "read"]
       ELSE /\ pc' = [pc EXCEPT ![p] = "lockConn"]
            /\ UNCHANGED <<lastUsed, seen, stale>>
  /\ UNCHANGED <<httpVars, firstCalls, client, lockVars, cleanupVars, ret, closerVars, watchdogVars, countVars>>

\* if hasConnection { Lock; if c.client != nil { lastUsed = Now; Unlock; return nil }; Unlock }
FastPath(p) ==
  /\ pc[p] = "fast"
  /\ CanLock
  /\ IF client # Nil
       THEN /\ lastUsed' = Now
            /\ stale' = Fresh
            /\ seen' = [seen EXCEPT ![p] = client]
            /\ pc' = [pc EXCEPT ![p] = "read"]
       ELSE /\ pc' = [pc EXCEPT ![p] = "lockConn"]
            /\ UNCHANGED <<lastUsed, seen, stale>>
  /\ UNCHANGED <<httpVars, firstCalls, client, lockVars, cleanupVars, ret, closerVars, watchdogVars, countVars>>

\* c.connectionMu.Lock(); defer c.connectionMu.Unlock()
LockConnection(p) ==
  /\ pc[p] = "lockConn"
  /\ CanLockConnection
  /\ connectionMu' = C(p)
  /\ pc' = [pc EXCEPT ![p] = "dcheck"]
  /\ UNCHANGED <<httpVars, stale, firstCalls, clientVars, mu, cleanupVars, seen, ret, closerVars, watchdogVars, countVars>>

\* Mutant: a caller that finds c.client nil after an earlier attempt failed
\* returns that failure instead of connecting itself.
DoubleCheck_SharesFailure(p) ==
  /\ pc[p] = "dcheck"
  /\ CanRLock
  /\ IF client # Nil
       THEN /\ seen' = [seen EXCEPT ![p] = client]
            /\ pc' = [pc EXCEPT ![p] = "dtouch"]
            /\ UNCHANGED <<attempts, connectionMu, ret>>
       ELSE IF failures > 0
         THEN /\ connectionMu' = NoLock
              /\ ret' = [ret EXCEPT ![p] = ConnectError]
              /\ pc' = [pc EXCEPT ![p] = "idle"]
              /\ UNCHANGED <<attempts, seen>>
         ELSE /\ attempts < MaxAttempts
              /\ attempts' = attempts + 1
              /\ pc' = [pc EXCEPT ![p] = "connecting"]
              /\ UNCHANGED <<seen, connectionMu, ret>>
  /\ UNCHANGED <<httpVars, stale, firstCalls, clientVars, mu, cleanupVars, closerVars, watchdogVars,
                 connects, failures, disconnected, reclaims>>

\* RLock; if c.client != nil { RUnlock; ... }; RUnlock; mongo.Connect(ctx, ...) is called
DoubleCheck(p) ==
  /\ pc[p] = "dcheck"
  /\ CanRLock
  /\ IF client # Nil
       THEN /\ seen' = [seen EXCEPT ![p] = client]
            /\ pc' = [pc EXCEPT ![p] = "dtouch"]
            /\ UNCHANGED attempts
       ELSE /\ attempts < MaxAttempts
            /\ attempts' = attempts + 1
            /\ pc' = [pc EXCEPT ![p] = "connecting"]
            /\ UNCHANGED seen
  /\ UNCHANGED <<httpVars, stale, firstCalls, clientVars, lockVars, cleanupVars, ret, closerVars, watchdogVars,
                 connects, failures, disconnected, reclaims>>

\* Mutant: the double-check path returns without unlocking connectionMu.
DoubleTouch_KeepsCreationLock(p) ==
  /\ pc[p] = "dtouch"
  /\ CanLock
  /\ lastUsed' = Now
  /\ stale' = Fresh
  /\ pc' = [pc EXCEPT ![p] = "read"]
  /\ UNCHANGED <<httpVars, firstCalls, client, lockVars, cleanupVars, seen, ret, closerVars, watchdogVars, countVars>>

\* Lock; c.lastUsed = time.Now(); Unlock; return nil (connectionMu is unlocked by the defer)
DoubleTouch(p) ==
  /\ pc[p] = "dtouch"
  /\ CanLock
  /\ lastUsed' = Now
  /\ stale' = Fresh
  /\ connectionMu' = NoLock
  /\ pc' = [pc EXCEPT ![p] = "read"]
  /\ UNCHANGED <<httpVars, firstCalls, client, mu, cleanupVars, seen, ret, closerVars, watchdogVars, countVars>>

\* Mutant: the error path returns without unlocking connectionMu.
ConnectFail_KeepsLock(p) ==
  /\ pc[p] = "connecting"
  /\ failures' = failures + 1
  /\ ret' = [ret EXCEPT ![p] = ConnectError]
  /\ pc' = [pc EXCEPT ![p] = "idle"]
  /\ UNCHANGED <<httpVars, stale, firstCalls, clientVars, lockVars, cleanupVars, seen, closerVars, watchdogVars,
                 attempts, connects, disconnected, reclaims>>

\* mongo.Connect returns an error: ensureConnection returns it, GetConnection returns (nil, err)
ConnectFail(p) ==
  /\ pc[p] = "connecting"
  /\ failures' = failures + 1
  /\ connectionMu' = NoLock
  /\ ret' = [ret EXCEPT ![p] = ConnectError]
  /\ pc' = [pc EXCEPT ![p] = "idle"]
  /\ UNCHANGED <<httpVars, stale, firstCalls, clientVars, mu, cleanupVars, seen, closerVars, watchdogVars,
                 attempts, connects, disconnected, reclaims>>

\* mongo.Connect returns a client; Lock; c.client = client; c.lastUsed = time.Now(); Unlock
ConnectOK(p) ==
  /\ pc[p] = "connecting"
  /\ CanLock
  /\ connects' = connects + 1
  /\ client' = attempts
  /\ lastUsed' = Now
  /\ stale' = Fresh
  /\ seen' = [seen EXCEPT ![p] = attempts]
  /\ pc' = [pc EXCEPT ![p] = "startCleanup"]
  /\ UNCHANGED <<httpVars, firstCalls, lockVars, cleanupVars, ret, closerVars, watchdogVars,
                 attempts, failures, disconnected, reclaims>>

\* The channels made so far; goroutine k is spawned with the k-th.
Born == {k \in Watchdogs : wpc[k] # "unborn"}

\* startCleanup, then ensureConnection returns nil (connectionMu is unlocked by the defer)
StartCleanup(p) ==
  /\ pc[p] = "startCleanup"
  /\ IF stopCleanup = Nil
       THEN LET k == Cardinality(Born) + 1 IN
            /\ stopCleanup' = k
            /\ wpc' = [wpc EXCEPT ![k] = "start"]
       ELSE UNCHANGED <<stopCleanup, wpc>>
  /\ connectionMu' = NoLock
  /\ pc' = [pc EXCEPT ![p] = "read"]
  /\ UNCHANGED <<httpVars, wres, stale, firstCalls, clientVars, mu, closed, seen, ret, closerVars, wsel, tick, untilTick, countVars>>

\* GetConnection: RLock; defer RUnlock; return c.client, nil
ReadClient(p) ==
  /\ pc[p] = "read"
  /\ CanRLock
  /\ ret' = [ret EXCEPT ![p] = Returned(client)]
  /\ pc' = [pc EXCEPT ![p] = "idle"]
  /\ UNCHANGED <<httpVars, stale, firstCalls, clientVars, lockVars, cleanupVars, seen, closerVars, watchdogVars, countVars>>

\* ------------------------------------------------------ stopCleanupGoroutine

\* Lock cleanupMu; if c.stopCleanup != nil { close(c.stopCleanup); c.stopCleanup = nil }
stopCleanupGoroutine ==
  IF stopCleanup # Nil
    THEN /\ closed' = closed \cup {stopCleanup}
         /\ stopCleanup' = Nil
    ELSE UNCHANGED <<stopCleanup, closed>>

\* ---------------------------------------------------------------- Close

\* Close calls stopCleanupGoroutine.
CloseStop ==
  /\ cpc = "idle"
  /\ closes < MaxCloses
  /\ closes' = closes + 1
  /\ cret' = "pending"
  /\ cres' = NoResult
  /\ stopCleanupGoroutine
  /\ cpc' = "lock"
  /\ UNCHANGED <<httpVars, clientVars, lockVars, callerVars, watchdogVars, countVars>>

\* Lock; defer Unlock; if c.client != nil { c.client.Disconnect(ctx) is called } else return nil
CloseLock ==
  /\ cpc = "lock"
  /\ CanLock
  /\ IF client # Nil
       THEN /\ mu' = Closer
            /\ disconnected' = disconnected \cup {client}
            /\ cpc' = "disconnecting"
            /\ UNCHANGED cret
       ELSE /\ cret' = NoError
            /\ cpc' = "idle"
            /\ UNCHANGED <<mu, disconnected>>
  /\ UNCHANGED <<httpVars, cres, clientVars, connectionMu, cleanupVars, callerVars, closes, watchdogVars,
                 attempts, connects, failures, reclaims>>

\* Mutant: Close drops the result of Disconnect and returns nil.
CloseReturn_SwallowsError ==
  /\ cpc = "disconnecting"
  /\ \E err \in {NoError, DisconnectError} : cres' = err
  /\ cret' = NoError
  /\ mu' = NoLock
  /\ cpc' = "idle"
  /\ UNCHANGED <<httpVars, clientVars, connectionMu, cleanupVars, callerVars, closes, watchdogVars, countVars>>

\* Disconnect returns; Close returns its result (c.mu is unlocked by the defer)
CloseReturn ==
  /\ cpc = "disconnecting"
  /\ \E err \in {NoError, DisconnectError} : cres' = err
  /\ cret' = cres'
  /\ mu' = NoLock
  /\ cpc' = "idle"
  /\ UNCHANGED <<httpVars, clientVars, connectionMu, cleanupVars, callerVars, closes, watchdogVars, countVars>>

\* ------------------------------------------- cleanupStaleConnections (goroutine k)

\* ticker := time.NewTicker(ConnectionCheckInterval); the select evaluates c.stopCleanup
WStart(k) ==
  /\ wpc[k] = "start"
  /\ untilTick' = [untilTick EXCEPT ![k] = ConnectionCheckInterval]
  /\ wsel' = [wsel EXCEPT ![k] = stopCleanup]
  /\ wpc' = [wpc EXCEPT ![k] = "select"]
  /\ UNCHANGED <<httpVars, wres, clientVars, lockVars, cleanupVars, callerVars, closerVars, tick, countVars>>

\* for { select { ...: the select is entered again and evaluates c.stopCleanup (no lock held)
WEnter(k) ==
  /\ wpc[k] = "enter"
  /\ wsel' = [wsel EXCEPT ![k] = stopCleanup]
  /\ wpc' = [wpc EXCEPT ![k] = "select"]
  /\ UNCHANGED <<httpVars, wres, clientVars, lockVars, cleanupVars, callerVars, closerVars, tick, untilTick, countVars>>

\* case <-ticker.C:
WSelectTick(k) ==
  /\ wpc[k] = "select"
  /\ tick[k]
  /\ tick' = [tick EXCEPT ![k] = FALSE]
  /\ wpc' = [wpc EXCEPT ![k] = "tick"]
  /\ UNCHANGED <<httpVars, wres, clientVars, lockVars, cleanupVars, callerVars, closerVars, wsel, untilTick, countVars>>

\* case <-c.stopCleanup: return  (a receive from a nil channel never proceeds)
WSelectStop(k) ==
  /\ wpc[k] = "select"
  /\ wsel[k] # Nil
  /\ wsel[k] \in closed
  /\ wpc' = [wpc EXCEPT ![k] = "exited"]
  /\ tick' = [tick EXCEPT ![k] = FALSE]
  /\ untilTick' = [untilTick EXCEPT ![k] = 0]
  /\ wsel' = [wsel EXCEPT ![k] = Nil]
  /\ UNCHANGED <<httpVars, wres, clientVars, lockVars, cleanupVars, callerVars, closerVars, countVars>>

\* Lock; if hasConnection && timeSinceLastUse > ConnectionTimeout { c.client.Disconnect(ctx)
\* is called with c.mu held } else { Unlock }
WTick(k) ==
  /\ wpc[k] = "tick"
  /\ CanLock
  /\ IF IsStale
       THEN /\ mu' = W(k)
            /\ disconnected' = disconnected \cup {client}
            /\ wpc' = [wpc EXCEPT ![k] = "disconnecting"]
            \* the ticker and the select are not used again on this path
            /\ tick' = [tick EXCEPT ![k] = FALSE]
            /\ untilTick' = [untilTick EXCEPT ![k] = 0]
            /\ wsel' = [wsel EXCEPT ![k] = Nil]
       ELSE /\ wpc' = [wpc EXCEPT ![k] = "enter"]
            /\ UNCHANGED <<mu, disconnected, tick, untilTick, wsel>>
  /\ UNCHANGED <<httpVars, wres, clientVars, connectionMu, cleanupVars, callerVars, closerVars,
                 attempts, connects, failures, reclaims>>

\* Mutant: the handle is cleared only when Disconnect returned no error.
WReclaim_KeepsOnError(k) ==
  /\ wpc[k] = "disconnecting"
  /\ \E err \in {NoError, DisconnectError} :
       /\ wres' = [wres EXCEPT ![k] = err]
       /\ client' = IF err = NoError THEN Nil ELSE client
  /\ mu' = NoLock
  /\ reclaims' = reclaims + 1
  /\ wpc' = [wpc EXCEPT ![k] = "stopping"]
  /\ UNCHANGED <<httpVars, lastUsed, connectionMu, cleanupVars, callerVars, closerVars, wsel, tick, untilTick,
                 attempts, connects, failures, disconnected>>

\* Disconnect returns, with or without an error (its result is dropped);
\* c.client = nil; Unlock
WReclaim(k) ==
  /\ wpc[k] = "disconnecting"
  /\ \E err \in {NoError, DisconnectError} : wres' = [wres EXCEPT ![k] = err]
  /\ client' = Nil
  /\ mu' = NoLock
  /\ reclaims' = reclaims + 1
  /\ wpc' = [wpc EXCEPT ![k] = "stopping"]
  /\ UNCHANGED <<httpVars, lastUsed, connectionMu, cleanupVars, callerVars, closerVars, wsel, tick, untilTick,
                 attempts, connects, failures, disconnected>>

\* c.stopCleanupGoroutine(); return
WStop(k) ==
  /\ wpc[k] = "stopping"
  /\ stopCleanupGoroutine
  /\ wres' = [wres EXCEPT ![k] = NoResult]
  /\ wpc' = [wpc EXCEPT ![k] = "exited"]
  /\ UNCHANGED <<httpVars, clientVars, lockVars, callerVars, closerVars, wsel, tick, untilTick, countVars>>

\* ---------------------------------------------------------------- the clock

\* The goroutines whose ticker can still be read.
Ticking == {k \in Watchdogs : wpc[k] \in {"select", "tick", "enter"}}

\* One minute passes: c.lastUsed lies a minute further back, and a ticker that is
\* due puts a tick in its channel (capacity 1: a tick that finds one there is dropped).
Advance ==
  /\ lastUsed' = IF lastUsed > 0 - Horizon THEN lastUsed - 1 ELSE lastUsed
  /\ tick' = [k \in Watchdogs |->
                IF k \in Ticking /\ untilTick[k] <= 1 THEN TRUE ELSE tick[k]]
  /\ untilTick' = [k \in Watchdogs |->
                IF k \in Ticking
                  THEN IF untilTick[k] <= 1 THEN ConnectionCheckInterval ELSE untilTick[k] - 1
                  ELSE untilTick[k]]
  /\ UNCHANGED <<httpVars, wres, client, lockVars, cleanupVars, callerVars, closerVars, wpc, wsel, countVars>>

\* ------------------------------------------------------------ specification

GetConnection(p) ==
  \/ FirstCheck(p)
  \/ FastPath(p)
  \/ LockConnection(p)
  \/ DoubleCheck(p)
  \/ DoubleTouch(p)
  \/ ConnectFail(p)
  \/ ConnectOK(p)
  \/ StartCleanup(p)
  \/ ReadClient(p)

Close ==
  \/ CloseStop
  \/ CloseLock
  \/ CloseReturn

cleanupStaleConnections(k) ==
  \/ WStart(k)
  \/ WEnter(k)
  \/ WSelectTick(k)
  \/ WSelectStop(k)
  \/ WTick(k)
  \/ WReclaim(k)
  \/ WStop(k)

Next ==
  \/ \E p \in Callers : GetConnection(p)
  \/ Close
  \/ \E k \in Watchdogs : cleanupStaleConnections(k)
  \/ Advance

Spec == Init /\ [][Next]_vars

\* ------------------------------------------------------------ the HTTP layer

\* getAPISecret: c.Request().Header.Get("api-key")
getAPISecret(req) == req.key

\* Mutant: ReadAuth without the check for an empty header.
ReadAuth_NoEmptyCheck(secret, readOnly, providedSecret) ==
  IF providedSecret = secret THEN CallNext
  ELSE IF readOnly # NoKey /\ providedSecret = readOnly THEN CallNext
  ELSE StatusForbidden

\* ReadAuth(apiSecret, readOnlyAPISecret) applied to a request with this header
ReadAuth(secret, readOnly, providedSecret) ==
  IF providedSecret = NoKey THEN StatusUnauthorized
  ELSE IF providedSecret = secret THEN CallNext
  ELSE IF readOnly # NoKey /\ providedSecret = readOnly THEN CallNext
  ELSE StatusForbidden

\* Mutant: WriteAuth also accepts the configured read-only secret.
WriteAuth_AcceptsReadOnly(secret, providedSecret) ==
  IF providedSecret = NoKey THEN StatusUnauthorized
  ELSE IF providedSecret # secret /\ ~(readOnlyAPISecret # NoKey /\ providedSecret = readOnlyAPISecret)
    THEN StatusForbidden
  ELSE CallNext

\* WriteAuth(apiSecret) applied to a request with this header
WriteAuth(secret, providedSecret) ==
  IF providedSecret = NoKey THEN StatusUnauthorized
  ELSE IF providedSecret # secret THEN StatusForbidden
  ELSE CallNext

\* The middleware of the group the route was registered on.
Middleware(rt, req) ==
  IF rt.auth = "ReadAuth" THEN ReadAuth(apiSecret, readOnlyAPISecret, getAPISecret(req))
  ELSE IF rt.auth = "WriteAuth" THEN WriteAuth(apiSecret, getAPISecret(req))
  ELSE CallNext

\* if req.Limit != nil && *req.Limit > 0 { findOptions.SetLimit(*req.Limit) }
\* (the same for Skip): the option is set, or left as options.Find() made it
SetIfPositive(field) == IF field # Absent /\ field[2] > 0 THEN field ELSE Absent

\* the limit find passes to collection.Find
FindLimit(b) == SetIfPositive(b.limit)

\* DataAPIHandler.Find on body b: the status it answers and its call of collection.Find
Find(b) ==
  IF ~b.bind THEN [status |-> StatusBadRequest, db |-> FindNotCalled]
  ELSE IF ~b.named THEN [status |-> StatusBadRequest, db |-> FindNotCalled]
  ELSE IF ~b.coll THEN [status |-> StatusInternalServerError, db |-> FindNotCalled]
  ELSE IF ~b.filter THEN [status |-> StatusBadRequest, db |-> FindNotCalled]
  ELSE IF ~b.sort THEN [status |-> StatusBadRequest, db |-> FindNotCalled]
  ELSE IF ~b.projection THEN [status |-> StatusBadRequest, db |-> FindNotCalled]
  ELSE [status |-> IF b.cursor THEN StatusOK ELSE StatusInternalServerError,
        db |-> FindCalled(FindLimit(b), SetIfPositive(b.skip))]

\* The server is between two requests.
Idle == request.route = NoRoute

\* A request arrives and echo finds its route. Only the find action's use of the
\* body is looked at.
Receive ==
  /\ Idle
  /\ \E rt \in Routes, k \in Keys \cup {NoKey}, b \in Bodies :
       request' = [route |-> rt, key |-> k, body |-> IF rt = FindRoute THEN b ELSE NoBody]
  /\ UNCHANGED <<dbVars, apiSecret, readOnlyAPISecret, status, called, dbFind>>

\* The request has its route and no response yet.
Received == ~Idle /\ status = NoStatus

\* The middleware answers the request itself: next is not called.
ServeRejected ==
  /\ Received
  /\ Middleware(request.route, request) # CallNext
  /\ status' = Middleware(request.route, request)
  /\ called' = NoHandler
  /\ dbFind' = FindNotCalled
  /\ UNCHANGED <<dbVars, apiSecret, readOnlyAPISecret, request>>

\* The middleware passes a request to /action/find on to DataAPIHandler.Find.
ServeFind ==
  /\ Received
  /\ request.route = FindRoute
  /\ Middleware(request.route, request) = CallNext
  /\ status' = Find(request.body).status
  /\ called' = FindRoute.handler
  /\ dbFind' = Find(request.body).db
  /\ UNCHANGED <<dbVars, apiSecret, readOnlyAPISecret, request>>

\* The middleware (if the route has one) passes the request on to another handler.
ServeHandler ==
  /\ Received
  /\ request.route # FindRoute
  /\ Middleware(request.route, request) = CallNext
  /\ status' \in HandlerStatuses
  /\ called' = request.route.handler
  /\ dbFind' = FindNotCalled
  /\ UNCHANGED <<dbVars, apiSecret, readOnlyAPISecret, request>>

\* The response has been sent and the request is forgotten: the middleware and
\* the handlers keep nothing from one request to the next.
Done ==
  /\ status # NoStatus
  /\ request' = [route |-> NoRoute, key |-> NoKey, body |-> NoBody]
  /\ status' = NoStatus
  /\ called' = NoHandler
  /\ dbFind' = FindNotCalled
  /\ UNCHANGED <<dbVars, apiSecret, readOnlyAPISecret>>

HttpNext ==
  \/ Receive
  \/ ServeRejected
  \/ ServeFind
  \/ ServeHandler
  \/ Done

HttpSpec == HttpInit /\ [][HttpNext]_vars

\* ------------------------------------------------------------------ claims

\* The cleanup goroutines that are running.
Running == {k \in Watchdogs : wpc[k] \notin {"unborn", "exited"}}
\* The callers whose mongo.Connect is in flight.
Connecting == {p \in Callers : pc[p] = "connecting"}
\* GetConnection returned (client, nil) to p.
ReturnedOK(p) == ret[p][2] = NoError

\* C1 as claimed: when every caller makes its first GetConnection against the
\* fresh client and no connect fails (and Close is not called), mongo.Connect is
\* invoked once and every call returns the connection it produced.
C1_Original ==
  (firstCalls /\ failures = 0 /\ closes = 0) =>
    /\ attempts <= 1
    /\ \A p \in Callers : ReturnedOK(p) => ret[p] = Returned(1)

\* The same holds as long as no cleanup goroutine has reclaimed the connection
\* while the calls are in flight.
C1_WithoutReclaim ==
  (firstCalls /\ failures = 0 /\ closes = 0 /\ reclaims = 0) =>
    /\ attempts <= 1
    /\ \A p \in Callers : ReturnedOK(p) => ret[p] = Returned(1)

\* C2: at most one mongo.Connect is in flight; a connect starts only while
\* c.client is nil and no other is in flight; a connection is stored only over
\* nil; a caller that finds a client at the double check does not connect.
C2_OneCreator ==
  [][ /\ Cardinality(Connecting') <= 1
      /\ (attempts' # attempts => client = Nil /\ Connecting = {})
      /\ (client' # client /\ client' # Nil => client = Nil)
      /\ \A p \in Callers :
           (pc[p] = "dcheck" /\ client # Nil /\ pc'[p] # "dcheck") =>
             (attempts' = attempts /\ pc'[p] = "dtouch" /\ client' = client)
    ]_vars

\* A caller entered the creation section and found the connection a racing
\* caller stored.
C2_Witness == \E p \in Callers : pc[p] = "dtouch" /\ connectionMu = C(p) /\ client # Nil

\* C3 as claimed: a GetConnection that returns no error returns a non-nil
\* client, the one its ensureConnection found or created.
C3_Claim ==
  \A p \in Callers : ReturnedOK(p) => (ret[p][1] # Nil /\ ret[p][1] = seen[p])

\* The cleanup goroutines that have not cleared c.client: those still watching
\* a connection.
Watching == {k \in Watchdogs : wpc[k] \in {"start", "select", "tick", "enter", "disconnecting"}}

\* C4 as claimed, in the behaviours without Close: c.client is set if and only
\* if a cleanup goroutine is watching or the caller that stored the client is
\* about to call startCleanup.
C4_Claim ==
  closes = 0 =>
    ((client # Nil) <=> (Watching # {} \/ \E p \in Callers : pc[p] = "startCleanup"))

\* The steps of a GetConnection that is under way (calling is the handler's choice).
InFlight(p) ==
  \/ FastPath(p)
  \/ LockConnection(p)
  \/ DoubleCheck(p)
  \/ DoubleTouch(p)
  \/ ConnectFail(p)
  \/ ConnectOK(p)
  \/ StartCleanup(p)
  \/ ReadClient(p)

\* Every goroutine that can run does run, mongo.Connect and Disconnect return,
\* and time passes.
FairSpec ==
  /\ Spec
  /\ \A p \in Callers : WF_vars(InFlight(p))
  /\ \A k \in Watchdogs : WF_vars(cleanupStaleConnections(k))
  /\ WF_vars(CloseLock \/ CloseReturn)
  /\ WF_vars(Advance)

\* C5 as claimed, in the behaviours without Close: a stored connection that no
\* GetConnection has touched for ConnectionTimeout + ConnectionCheckInterval is
\* eventually cleared by its cleanup goroutine (or touched again).
C5_Claim ==
  (closes = 0 /\ client # Nil /\ Since(lastUsed) >= ConnectionTimeout + ConnectionCheckInterval)
    ~> (closes > 0 \/ client = Nil \/ Since(lastUsed) < ConnectionTimeout + ConnectionCheckInterval)

\* C6: a cleanup goroutine starts to disconnect only with c.mu held, a client
\* stored and more than ConnectionTimeout elapsed since c.lastUsed; and every
\* ensureConnection that returns nil has set c.lastUsed to the time it ran.
C6_ReclaimOnlyWhenIdle ==
  [][ /\ \A k \in Watchdogs :
           (wpc[k] = "tick" /\ wpc'[k] = "disconnecting") =>
             (mu' = W(k) /\ client # Nil /\ Since(lastUsed) > ConnectionTimeout)
      /\ \A k \in Watchdogs :
           (wpc[k] = "disconnecting" /\ wpc'[k] # "disconnecting") =>
             (mu = W(k) /\ client' = Nil)
      /\ (client # Nil /\ client' = Nil) => \E k \in Watchdogs : wpc[k] = "disconnecting"
      /\ \A p \in Callers :
           (pc[p] \in {"fast", "dtouch", "connecting"} /\ pc'[p] \in {"read", "startCleanup"}) =>
             lastUsed' = Now
    ]_vars

\* The one connection made was used again by a later GetConnection, and is
\* reclaimed when the timeout has passed since that use.
C6_Witness ==
  /\ ~firstCalls /\ attempts = 1
  /\ \A p \in Callers : pc[p] = "idle" /\ ret[p] = Returned(1)
  /\ \E k \in Watchdogs : wpc[k] = "disconnecting"

\* C7 as claimed: at most one cleanup goroutine runs at any time.
C7_Claim == Cardinality(Running) <= 1

\* The callers inside the creation section.
InCreation == {p \in Callers : pc[p] \in {"dcheck", "dtouch", "connecting", "startCleanup"}}

\* C8: a failed mongo.Connect returns the error and changes nothing: c.client stays
\* nil, c.lastUsed, c.stopCleanup and the goroutines are as before, connectionMu is
\* released; connectionMu is held only by a caller inside the section, and the
\* next caller that finds c.client nil there makes a connect attempt of its own.
C8_FailLeavesNoState ==
  [][ /\ \A p \in Callers :
           (pc[p] = "connecting" /\ pc'[p] = "idle") =>
             /\ ret'[p] = ConnectError
             /\ client = Nil /\ client' = Nil
             /\ lastUsed' = lastUsed
             /\ stopCleanup' = stopCleanup /\ wpc' = wpc
             /\ connectionMu' = NoLock
      /\ \A p \in Callers : connectionMu' = C(p) => p \in InCreation'
      /\ \A p \in Callers :
           (pc[p] = "dcheck" /\ client = Nil /\ pc'[p] # "dcheck") =>
             (attempts' = attempts + 1 /\ pc'[p] = "connecting")
    ]_vars

\* After a failed attempt a later one succeeded.
C8_Witness ==
  /\ failures >= 1 /\ client # Nil
  /\ \E p \in Callers : ret[p] = ConnectError /\ pc[p] = "idle"

\* The callers GetConnection returned the connect error to.
Failed == {p \in Callers : ret[p] = ConnectError}

\* C9 as claimed: when the first calls of all callers hit the fresh client and
\* connecting fails, mongo.Connect is invoked once.
C9_Original ==
  (firstCalls /\ closes = 0 /\ connects = 0 /\ Connecting = {}) => attempts <= 1

\* C9 as amended: the attempts are made one at a time, and every caller that
\* receives the error made an attempt of its own.
C9_OwnAttempt ==
  /\ Cardinality(Connecting) <= 1
  /\ (firstCalls /\ connects = 0) => attempts = Cardinality(Failed) + Cardinality(Connecting)

\* Every caller's first call failed, each with its own attempt.
C9_Witness ==
  /\ firstCalls /\ connects = 0
  /\ Failed = Callers
  /\ attempts = NumCallers

\* C10 as claimed: a Close that disconnected the connection leaves c.client nil
\* when it returns.
C10_Claim ==
  [][(cpc = "disconnecting" /\ cpc' = "idle") => client' = Nil]_vars

\* C11 as claimed: a Close that finds no live connection (none was ever made, or
\* the one stored was disconnected by the Close before it) calls no Disconnect,
\* returns nil and leaves c.client nil.
C11_Claim ==
  [][ (cpc = "lock" /\ cpc' # "lock" /\ (client = Nil \/ client \in disconnected)) =>
        /\ cpc' = "idle" /\ cret' = NoError
        /\ mu' = mu /\ disconnected' = disconnected
        /\ client' = Nil
    ]_vars

\* The part of C11 about a client that never connected: Close returns nil, calls no
\* Disconnect and c.client stays nil.
C11_NeverConnected ==
  [][ (cpc = "lock" /\ cpc' # "lock" /\ client = Nil) =>
        /\ cpc' = "idle" /\ cret' = NoError
        /\ mu' = mu /\ disconnected' = disconnected
        /\ client' = Nil
    ]_vars

\* C12 as claimed: a GetConnection called after a Close disconnected the stored
\* connection does not find that connection: its first check sees c.client nil
\* and it goes on to connect.
C12_Claim ==
  [][ \A p \in Callers :
        (pc[p] = "idle" /\ pc'[p] # "idle" /\ client \in disconnected) => pc'[p] = "lockConn"
    ]_vars

\* C13 as claimed: once Close has closed the channel of cleanup goroutine k (no
\* goroutine has reclaimed yet, so only Close closes channels), k starts no
\* Disconnect and does not clear c.client.
C13_Claim ==
  [][ \A k \in Watchdogs :
        (reclaims = 0 /\ k \in closed) =>
          /\ ~(wpc[k] = "tick" /\ wpc'[k] = "disconnecting")
          /\ ~(wpc[k] = "disconnecting" /\ wpc'[k] = "stopping")
    ]_vars

\* The other half of C13: the goroutine whose channel Close closed exits.
C13_Exits ==
  \A k \in Watchdogs : (reclaims = 0 /\ k \in closed) ~> (wpc[k] = "exited" \/ reclaims > 0)

\* C14: no step of the program moves c.lastUsed back (only the passing of time
\* makes it older), c.lastUsed is never in the future, and every ensureConnection
\* that returns nil (fast path, double-check path, connect path) stores the
\* present, which is not earlier than what the previous one stored.
C14_LastUsedMonotone ==
  [][ /\ (pc' # pc \/ wpc' # wpc \/ cpc' # cpc) => lastUsed' >= lastUsed
      /\ lastUsed <= Now /\ lastUsed' <= Now
      /\ \A p \in Callers :
           (pc[p] \in {"fast", "dtouch", "connecting"} /\ pc'[p] \in {"read", "startCleanup"}) =>
             (lastUsed' = Now /\ lastUsed' >= lastUsed)
    ]_vars

\* A caller has touched the connection on one path while another caller, inside
\* the creation section, is about to touch it on the double-check path.
C14_Witness ==
  /\ ~firstCalls /\ connects >= 1 /\ lastUsed = Now
  /\ \E p, q \in Callers : p # q /\ pc[p] = "read" /\ seen[p] = client /\ pc[q] = "dtouch"

\* C15: as long as no GetConnection has been called, mongo.Connect has not been
\* called, c.client is nil and no cleanup goroutine or channel exists; and
\* mongo.Connect is called only by a caller inside ensureConnection, past its
\* double check.
C15_LazyConnection ==
  /\ []((\A p \in Callers : ret[p] = NotCalled) =>
          /\ attempts = 0 /\ connects = 0 /\ client = Nil
          /\ stopCleanup = Nil /\ Born = {} /\ disconnected = {})
  /\ [][ attempts' # attempts =>
           \E p \in Callers : pc[p] = "dcheck" /\ pc'[p] = "connecting" /\ ret[p] = Pending
       ]_vars

\* Close has run on the client that never connected, and the first connect is in
\* flight inside the first GetConnection.
C15_Witness ==
  /\ closes > 0 /\ cpc = "idle" /\ attempts = 1 /\ connects = 0
  /\ \E p \in Callers : pc[p] = "connecting" /\ \A q \in Callers \ {p} : ret[q] = NotCalled

\* C19 as claimed, in the behaviours without Close: the startCleanup of a caller
\* that stored a new connection spawns a cleanup goroutine, so that one made for
\* this connection is running when its GetConnection returns.
C19_Claim ==
  [][ \A p \in Callers :
        (closes = 0 /\ pc[p] = "startCleanup" /\ pc'[p] = "read") =>
          \E k \in Watchdogs : wpc[k] = "unborn" /\ wpc'[k] = "start" /\ stopCleanup' = k
    ]_vars

\* The part of C20 about the goroutine itself: after it has cleared c.client it
\* takes one more step, stopCleanupGoroutine, which leaves c.stopCleanup nil and
\* touches neither c.client nor any connection, and then it is gone for good.
C20_Terminates ==
  [][ \A k \in Watchdogs :
        /\ (wpc[k] = "disconnecting" /\ wpc'[k] # "disconnecting") => wpc'[k] = "stopping"
        /\ (wpc[k] = "stopping" /\ wpc'[k] # "stopping") =>
             /\ wpc'[k] = "exited" /\ stopCleanup' = Nil
             /\ client' = client /\ disconnected' = disconnected /\ reclaims' = reclaims
        /\ wpc[k] = "exited" => wpc'[k] = "exited"
        /\ wpc[k] \in {"stopping", "exited"} => (~tick'[k] /\ wsel'[k] = Nil)
    ]_vars

\* C20 as claimed: when the goroutine that cleared c.client returns, the stop
\* signal state allows the next connection a goroutine of its own: either
\* no connection is stored and c.stopCleanup is nil, or the connection stored
\* since has a goroutine watching it or is about to get one; and the channel the
\* goroutine closes on its way out is its own.
C20_Claim ==
  [][ \A k \in Watchdogs :
        (wpc[k] = "stopping" /\ wpc'[k] = "exited") =>
          /\ stopCleanup' = Nil
          /\ closed' \subseteq closed \cup {k}
          /\ client' # Nil => (Watching' # {} \/ \E p \in Callers : pc'[p] = "startCleanup")
    ]_vars

\* The routes that change documents: POST, PUT and DELETE on documents, and the
\* insert, update and delete actions of the Data API.
MutatingRoutes ==
  {rt \in Routes :
     \/ rt \in setupMongoRoutes /\ rt.method \in {"POST", "PUT", "DELETE"}
     \/ rt.path \in {"/api/v1/data-api/action/insertOne", "/api/v1/data-api/action/insertMany",
                     "/api/v1/data-api/action/updateOne", "/api/v1/data-api/action/updateMany",
                     "/api/v1/data-api/action/deleteOne", "/api/v1/data-api/action/deleteMany"}}

\* A response has been written for the request.
Answered == status # NoStatus

C18_Claim ==
  (request.route = FindRoute /\ dbFind.called) =>
    /\ request.body.limit = Absent => dbFind.limit = Ptr(DocumentedLimit)
    /\ (request.body.limit # Absent /\ request.body.limit[2] > 0) =>
         dbFind.limit = request.body.limit
    /\ request.body.skip = Absent => (dbFind.skip = Absent \/ dbFind.skip = Ptr(0))

\* What does hold of find: the options carry the request's limit and skip when
\* they are positive, and no limit and no skip otherwise.
C18_NoDefault ==
  (request.route = FindRoute /\ dbFind.called) =>
    /\ dbFind.limit = SetIfPositive(request.body.limit)
    /\ dbFind.skip = SetIfPositive(request.body.skip)
    /\ request.body.limit = Absent => dbFind.limit = Absent

\* ---------------------------------------------------------------- C21

\* C21: best-effort reclamation.  Whatever the Disconnect called by a
\* reclamation goroutine returns, the step that takes its result sets c.client
\* to nil, releases c.mu and leaves the return values of every GetConnection
\* and of Close as they were; the goroutine can then always take its last step,
\* which exits; Close returns DisconnectError only from a Disconnect it called
\* itself; and a caller that then finds c.client nil in the creation section
\* calls mongo.Connect.
C21_BestEffort ==
  [][/\ \A k \in Watchdogs :
          /\ (wpc[k] = "disconnecting" /\ wpc'[k] # "disconnecting")
                => /\ wres'[k] \in {NoError, DisconnectError}
                   /\ client' = Nil
                   /\ mu' = NoLock
                   /\ wpc'[k] = "stopping"
                   /\ ret' = ret /\ cret' = cret
          /\ wpc'[k] = "stopping" => (ENABLED WStop(k))'
          /\ (wpc[k] = "stopping" /\ wpc'[k] # "stopping")
                => wpc'[k] = "exited" /\ ret' = ret /\ cret' = cret
     /\ (cret' = DisconnectError /\ cret # DisconnectError) => cpc = "disconnecting"
     /\ \A p \in Callers :
          /\ ret'[p] # ret[p] => ret'[p] \in {Pending, ConnectError, Returned(client)}
          /\ (ret'[p] = ConnectError /\ ret[p] # ConnectError) => pc[p] = "connecting"
          /\ (pc[p] = "dcheck" /\ pc'[p] # "dcheck" /\ client = Nil)
                => pc'[p] = "connecting"
    ]_vars

\* A goroutine's Disconnect failed, the handle was cleared, and a later
\* GetConnection connected again and returned the new connection.
C21_Witness ==
  \E k \in Watchdogs, p \in Callers :
    /\ wpc[k] = "stopping"
    /\ wres[k] = DisconnectError
    /\ client # Nil
    /\ client \notin disconnected
    /\ pc[p] = "idle"
    /\ ret[p] = Returned(client)
    /\ cret # DisconnectError

\* ---------------------------------------------------------------- C22

\* The calls of c.client.Disconnect that have not returned.
Disconnecting ==
  {k \in Watchdogs : wpc[k] = "disconnecting"}
    \cup (IF cpc = "disconnecting" THEN {0} ELSE {})

\* C22: at most one mongo.Connect or Disconnect is executing: never a Connect
\* together with a Disconnect (of a reclamation goroutine or of Close), never
\* two Disconnects, (and never two Connects).
C22_OneInFlight ==
  Cardinality(Connecting) + Cardinality(Disconnecting) <= 1

\* Close waits for c.mu while a reclamation goroutine's Disconnect is executing.
C22_Witness ==
  /\ cpc = "lock"
  /\ client # Nil
  /\ \E k \in Watchdogs : wpc[k] = "disconnecting"

\* ---------------------------------------------------------------- C23

\* C23 (as stated; violated): c.mu is never held across a Connect or a
\* Disconnect, so no caller that found c.client set at its first check waits
\* for c.mu.Lock of the fast path while the holder of c.mu is executing one.
C23_Claim ==
  \A p \in Callers :
    ~(pc[p] = "fast" /\ mu # NoLock /\ Disconnecting # {})

\* ---------------------------------------------------------------- C24

\* C24: the fast path.  A caller that found c.client set at its first check
\* and finds it set again under c.mu.Lock stores time.Now() in c.lastUsed and
\* goes on to return c.client; from the first check to the return it never
\* holds connectionMu and none of its steps changes connectionMu; and each of
\* these steps can be taken as soon as c.mu is free, whoever holds connectionMu.
C24_FastPath ==
  [][\A p \in Callers :
       /\ (pc[p] = "fast" /\ pc'[p] # "fast")
            => /\ connectionMu' = connectionMu
               /\ client # Nil => (pc'[p] = "read" /\ lastUsed' = Now /\ seen'[p] = client)
       /\ (pc[p] = "read" /\ pc'[p] # "read")
            => /\ connectionMu' = connectionMu
               /\ pc'[p] = "idle"
               /\ ret'[p] = Returned(client)
       /\ (pc'[p] \in {"fast", "read"}
            => /\ connectionMu' # C(p)
               /\ mu' = NoLock => (ENABLED (FastPath(p) \/ ReadClient(p)))')
    ]_vars

\* A caller that found c.client set at its first check is about to take the
\* fast path while another caller holds connectionMu.
C24_Witness ==
  \E p, q \in Callers :
    /\ p # q
    /\ pc[p] = "fast"
    /\ client # Nil
    /\ mu = NoLock
    /\ connectionMu = C(q)

\* ---------------------------------------------------------------- C25

\* C25: recency is linearized with the handle.  Once GetConnection has
\* returned a connection h to p, c.lastUsed is not older than the start of
\* that call for as long as c.client is h; c.lastUsed changes only by a store
\* of time.Now() (or by time passing); and the step that stores a new
\* connection in c.client stores time.Now() in c.lastUsed as well.
C25_Linearized ==
  [][/\ \A p \in Callers :
          (pc'[p] = "idle" /\ ret'[p][2] = NoError /\ ret'[p][1] # Nil /\ ret'[p][1] = client')
            => ~stale'[p]
     /\ lastUsed' # lastUsed => (lastUsed' = Now \/ Advance)
     /\ (client' # client /\ client' # Nil) => (lastUsed' = Now /\ stale' = Fresh)
    ]_vars

\* p was returned the connection that is still stored, time has passed since
\* the last use, and a later call of q has started that finds c.lastUsed older
\* than its own start.
C25_Witness ==
  \E p, q \in Callers :
    /\ p # q
    /\ pc[p] = "idle"
    /\ ret[p] = Returned(client)
    /\ client # Nil
    /\ lastUsed < Now
    /\ pc[q] = "fast"
    /\ stale[q]

\* ---------------------------------------------------------------- C26

\* The steps of caller p that read or write c.client or c.lastUsed.
CallerAccess(p) ==
  /\ pc'[p] # pc[p]
  /\ \/ pc[p] \in {"idle", "fast", "dcheck", "dtouch", "read"}
     \/ pc[p] = "connecting" /\ pc'[p] = "startCleanup"

\* The step of goroutine k that reads c.lastUsed and c.client after c.mu.Lock.
WatchdogRead(k) == wpc[k] = "tick" /\ wpc'[k] # "tick"

\* The step of goroutine k that writes c.client = nil before c.mu.Unlock.
WatchdogWrite(k) == wpc[k] = "disconnecting" /\ wpc'[k] # "disconnecting"

\* The step of Close that reads c.client after c.mu.Lock.
CloseRead == cpc = "lock" /\ cpc' # "lock"

\* C26: every read and every write of c.client and of c.lastUsed is made
\* inside a critical section of c.mu: a step that takes the lock for the
\* access is taken when no writer holds c.mu, the goroutine's write of
\* c.client is made while the goroutine itself holds c.mu, and c.client and
\* c.lastUsed are changed by no other step.
C26_UnderHandleLock ==
  [][/\ \A p \in Callers : CallerAccess(p) => mu = NoLock
     /\ \A k \in Watchdogs :
          /\ WatchdogRead(k) => mu = NoLock
          /\ WatchdogWrite(k) => mu = W(k)
     /\ CloseRead => mu = NoLock
     /\ client' # client
          => \/ \E p \in Callers : CallerAccess(p)
             \/ \E k \in Watchdogs : WatchdogWrite(k)
     /\ lastUsed' # lastUsed
          => \/ \E p \in Callers : CallerAccess(p)
             \/ Advance
     /\ (mu' # NoLock) => (mu' = Closer /\ cpc' = "disconnecting")
                            \/ \E k \in Watchdogs : mu' = W(k) /\ wpc'[k] = "disconnecting"
    ]_vars

\* A caller that has stored c.lastUsed waits for c.mu.RLock to read c.client
\* while Close holds c.mu.
C26_Witness ==
  \E p \in Callers :
    /\ pc[p] = "read"
    /\ seen[p] # Nil
    /\ mu = Closer
    /\ cpc = "disconnecting"

\* ---------------------------------------------------------------- C27

\* C27: Close returns DisconnectError exactly when the Disconnect it called
\* returned an error, in the step in which that Disconnect returns; a Close
\* that calls no Disconnect returns nil; and Close has no result before it
\* returns.
C27_CloseResult ==
  /\ cpc # "idle" => (cret = "pending" /\ cres = NoResult)
  /\ (cpc = "idle" /\ closes > 0)
       => /\ cret \in {NoError, DisconnectError}
          /\ cret = DisconnectError <=> cres = DisconnectError
          /\ cres = NoResult => cret = NoError

\* Close returned the error of the Disconnect it called.
C27_Witness ==
  /\ cpc = "idle"
  /\ closes > 0
  /\ cres = DisconnectError
  /\ cret = DisconnectError

\* ---------------------------------------------------------------- C28

\* The holder of c.mu is executing Disconnect and releases c.mu when it returns.
MuHolderRuns ==
  /\ mu = Closer => (cpc = "disconnecting" /\ ENABLED CloseReturn)
  /\ \A k \in Watchdogs : mu = W(k) => (wpc[k] = "disconnecting" /\ ENABLED WReclaim(k))
  /\ \A p \in Callers : mu # C(p)

\* The holder of c.connectionMu is in the creation section, where it waits for
\* c.mu at most (mongo.Connect is called at most MaxAttempts times in a behaviour).
ConnectionMuHolderRuns ==
  \A q \in Callers :
    /\ connectionMu = C(q) <=> q \in InCreation
    /\ (q \in InCreation /\ (mu = NoLock \/ pc[q] \in {"connecting", "startCleanup"}))
         => \/ ENABLED GetConnection(q)
            \/ pc[q] = "dcheck" /\ client = Nil /\ attempts = MaxAttempts

\* A process outside the creation section waits for one lock, and proceeds
\* when that lock is free.
WaitersRun ==
  /\ \A p \in Callers :
       /\ (pc[p] \in {"idle", "fast", "read"} /\ mu = NoLock) => ENABLED GetConnection(p)
       /\ (pc[p] = "lockConn" /\ connectionMu = NoLock) => ENABLED GetConnection(p)
  /\ (cpc = "lock" /\ mu = NoLock) => ENABLED CloseLock
  /\ \A k \in Watchdogs :
       /\ (wpc[k] = "tick" /\ mu = NoLock) => ENABLED WTick(k)
       /\ wpc[k] \in {"start", "enter", "stopping"} => ENABLED cleanupStaleConnections(k)

\* C28: no deadlock.  Whoever holds c.mu waits for no lock; whoever holds
\* c.connectionMu waits for c.mu at most; every other process waits for one of
\* the two and holds nothing (the sections of cleanupMu are single steps that
\* take no other lock): every chain of waiting ends, after two links at most,
\* at a process that can take a step.
C28_NoDeadlock ==
  /\ MuHolderRuns
  /\ ConnectionMuHolderRuns
  /\ WaitersRun

\* A caller waits for c.mu, the holder of c.connectionMu waits for c.mu too, and
\* the holder of c.mu is executing Disconnect.
C28_Witness ==
  \E p, q \in Callers :
    /\ pc[p] \in {"fast", "read"}
    /\ pc[q] = "dtouch"
    /\ connectionMu = C(q)
    /\ mu # NoLock
    /\ Disconnecting # {}

\* ---------------------------------------------------------------- C29

\* C29 (as stated; violated): Disconnect is called at most once on each
\* connection: a step that calls c.client.Disconnect, in Close or in a
\* reclamation goroutine, is taken on a connection on which no Disconnect was
\* called before.
C29_Claim ==
  [][(Disconnecting' # Disconnecting /\ Disconnecting' # {})
       => client \notin disconnected
    ]_vars

\* ---------------------------------------------------------------- C30

\* C30 (as stated; violated): the stopCleanupGoroutine call that ends a
\* reclamation goroutine closes no channel but the one that goroutine was
\* started with, and no channel is closed twice (the channel in c.stopCleanup,
\* the only one close is ever called on, has not been closed).
C30_Claim ==
  [][/\ \A k \in Watchdogs :
          (wpc[k] = "stopping" /\ wpc'[k] = "exited") => closed' \subseteq closed \cup {k}
     /\ stopCleanup' # Nil => stopCleanup' \notin closed'
    ]_vars

\* No channel is closed twice.
C30_NeverClosedTwice ==
  stopCleanup # Nil => stopCleanup \notin closed

====
